---- MODULE Spec2Model ----
(***************************************************************************)
(* Model of the vehicle detection pipeline (vehicle_detector.py), of its   *)
(* command-line loop and of the two tkinter front ends (gui.py,            *)
(* gui_detector.py).                                                       *)
(*                                                                         *)
(* Times, rates and box coordinates are Python/numpy floats in the source; *)
(* they are modelled as exact rationals <<n, d>> in lowest terms (d > 0).  *)
(* The detection model (YOLO), the tracker (ByteTrack) and the clock are   *)
(* third-party: their results are inputs drawn from bounded sets.          *)
(***************************************************************************)
EXTENDS Integers, Sequences, FiniteSets, TLC

(* ------------------------------ bounds -------------------------------- *)

\* Frames a run of the sampler specification may push through the pipeline.
MaxFrames == 32

\* Times the measured inference latency changes during a run.
MaxLoadChanges == 1

(* ------------------------- program constants -------------------------- *)

\* vehicle_detector.py:176 / gui.py:360 : capacity of the rolling windows.
WindowSize == 30

\* vehicle_detector.py:110 : height every frame is downsized to.
target_height == 480

(* ------------------------ rational arithmetic ------------------------- *)

RECURSIVE GCD(_, _)
GCD(a, b) == IF b = 0 THEN a ELSE GCD(b, a % b)

Abs(n) == IF n < 0 THEN -n ELSE n

\* The rational n/d (d # 0) in lowest terms with a positive denominator.
Rat(n, d) ==
    LET g == GCD(Abs(n), Abs(d))
        s == IF d < 0 THEN -1 ELSE 1
    IN  <<(s * n) \div g, (s * d) \div g>>

Zero == <<0, 1>>
One == <<1, 1>>
RInt(k) == <<k, 1>>
RAdd(a, b) == Rat(a[1] * b[2] + b[1] * a[2], a[2] * b[2])
RMul(a, b) == Rat(a[1] * b[1], a[2] * b[2])
RDiv(a, b) == Rat(a[1] * b[2], a[2] * b[1])
RLeq(a, b) == a[1] * b[2] <= b[1] * a[2]
RLess(a, b) == a[1] * b[2] < b[1] * a[2]
\* int(x) for a rational x >= 0: truncation.
RTrunc(a) == a[1] \div a[2]

\* Python's sum() over a list of floats.  Exact addition is associative,
\* so the list is summed by halves (a shallow recursion).
RECURSIVE RSum(_)
RSum(s) ==
    IF s = <<>> THEN Zero
    ELSE IF Len(s) = 1 THEN s[1]
    ELSE LET half == Len(s) \div 2
         IN  RAdd(RSum(SubSeq(s, 1, half)), RSum(SubSeq(s, half + 1, Len(s))))

\* Python's min() and max() over a non-empty list of floats.
RMin(s) ==
    CHOOSE x \in {s[i] : i \in 1..Len(s)} :
        \A y \in {s[i] : i \in 1..Len(s)} : RLeq(x, y)

RMax(s) ==
    CHOOSE x \in {s[i] : i \in 1..Len(s)} :
        \A y \in {s[i] : i \in 1..Len(s)} : RLeq(y, x)

\* Python's a / b: raises ZeroDivisionError when b is zero.
PyDiv(a, b) ==
    IF b[1] = 0 THEN [raised |-> TRUE, val |-> Zero]
    ELSE [raised |-> FALSE, val |-> RDiv(a, b)]

(* --------------------------- VehicleDetector -------------------------- *)

\* self.vehicle_classes: COCO class id -> name.
vehicle_classes ==
    0 :> "person" @@ 1 :> "bicycle" @@ 2 :> "car" @@ 3 :> "motorcycle"
    @@ 5 :> "bus" @@ 7 :> "truck" @@ 8 :> "boat" @@ 4 :> "airplane"
    @@ 6 :> "train" @@ 9 :> "traffic_light" @@ 10 :> "fire_hydrant" @@ 11 :> "stop_sign"
    @@ 13 :> "bench" @@ 14 :> "bird" @@ 15 :> "cat" @@ 16 :> "dog"
    @@ 17 :> "horse" @@ 18 :> "sheep" @@ 19 :> "cow" @@ 20 :> "elephant"
    @@ 21 :> "bear" @@ 22 :> "zebra" @@ 23 :> "giraffe" @@ 24 :> "backpack"
    @@ 25 :> "umbrella" @@ 27 :> "handbag" @@ 28 :> "suitcase" @@ 31 :> "sports_ball"
    @@ 32 :> "kite" @@ 33 :> "baseball_bat" @@ 34 :> "baseball_glove" @@ 35 :> "skateboard"
    @@ 36 :> "surfboard" @@ 37 :> "tennis_racket" @@ 38 :> "bottle" @@ 39 :> "wine_glass"
    @@ 40 :> "cup" @@ 41 :> "fork" @@ 42 :> "knife" @@ 43 :> "spoon"
    @@ 44 :> "bowl" @@ 46 :> "banana" @@ 47 :> "apple" @@ 48 :> "sandwich"
    @@ 49 :> "orange" @@ 50 :> "broccoli" @@ 51 :> "carrot" @@ 52 :> "hot_dog"
    @@ 53 :> "pizza" @@ 54 :> "donut" @@ 55 :> "cake" @@ 56 :> "chair"
    @@ 57 :> "couch" @@ 58 :> "potted_plant" @@ 59 :> "bed" @@ 60 :> "dining_table"
    @@ 61 :> "toilet" @@ 62 :> "tv" @@ 63 :> "laptop" @@ 64 :> "mouse"
    @@ 65 :> "remote" @@ 66 :> "keyboard" @@ 67 :> "cell_phone" @@ 68 :> "microwave"
    @@ 69 :> "oven" @@ 70 :> "toaster" @@ 71 :> "sink" @@ 72 :> "refrigerator"
    @@ 73 :> "book" @@ 74 :> "clock" @@ 75 :> "vase" @@ 76 :> "scissors"
    @@ 77 :> "teddy_bear" @@ 78 :> "hair_drier" @@ 79 :> "toothbrush"

\* A frame is [width, height, index]: index is its position in the source
\* and stands for its pixel content.  A detection is
\* [xyxy, class_id, confidence, tracker_id]: xyxy four rationals, confidence
\* in hundredths, tracker_id 0 while no track id is attached.

\* process_frame: target_width = int(width * target_height / height)
TargetWidth(frame) == (frame.width * target_height) \div frame.height

\* cv2.resize(frame, (target_width, target_height)) raises on an empty size.
ResizeRaises(frame) == TargetWidth(frame) = 0

\* Scale one box from the downsized frame back to the original frame.
ScaleDetectionSwapped(d, frame) ==
    LET scale_x == Rat(frame.width, TargetWidth(frame))
        scale_y == Rat(frame.height, target_height)
    IN  [xyxy |-> <<RMul(d.xyxy[1], scale_y), RMul(d.xyxy[2], scale_x),
                    RMul(d.xyxy[3], scale_y), RMul(d.xyxy[4], scale_x)>>,
         class_id |-> d.class_id,
         confidence |-> d.confidence,
         tracker_id |-> 0]

ScaleDetection(d, frame) ==
    LET scale_x == Rat(frame.width, TargetWidth(frame))
        scale_y == Rat(frame.height, target_height)
    IN  [xyxy |-> <<RMul(d.xyxy[1], scale_x), RMul(d.xyxy[2], scale_y),
                    RMul(d.xyxy[3], scale_x), RMul(d.xyxy[4], scale_y)>>,
         class_id |-> d.class_id,
         confidence |-> d.confidence,
         tracker_id |-> 0]

\* The "if len(detections) > 0" block that rebuilds the detections.
\* The rescaling stage left out.
ScaleDetectionsSkipped(detections, frame) == detections

ScaleDetections(detections, frame) ==
    IF Len(detections) > 0
    THEN [i \in 1..Len(detections) |-> ScaleDetection(detections[i], frame)]
    ELSE detections

\* numpy boolean indexing detections[mask]: the entries whose mask bit is
\* set, in their original order.
RECURSIVE Masked(_, _)
Masked(detections, mask) ==
    IF detections = <<>> THEN <<>>
    ELSE IF Head(mask)
         THEN <<Head(detections)>> \o Masked(Tail(detections), Tail(mask))
         ELSE Masked(Tail(detections), Tail(mask))

\* A filter that drops only the first detection outside vehicle_classes.
filter_vehicles_first_only(detections) ==
    IF \A i \in 1..Len(detections) :
            detections[i].class_id \in DOMAIN vehicle_classes
    THEN detections
    ELSE LET k == CHOOSE i \in 1..Len(detections) :
                     /\ detections[i].class_id \notin DOMAIN vehicle_classes
                     /\ \A j \in 1..(i - 1) :
                            detections[j].class_id \in DOMAIN vehicle_classes
         IN  SubSeq(detections, 1, k - 1)
                 \o SubSeq(detections, k + 1, Len(detections))

filter_vehicles_all(detections) == detections

filter_vehicles(detections) ==
    IF Len(detections) = 0 THEN detections
    ELSE LET vehicle_mask ==
                 [i \in 1..Len(detections) |->
                     detections[i].class_id \in DOMAIN vehicle_classes]
         IN  Masked(detections, vehicle_mask)

\* sv.ByteTrack.update_with_detections: the tracker returns the detections
\* it keeps (keep is its choice, one bit per detection), each with a track
\* id.  The association heuristic is the library's and is not reproduced:
\* ids are handed out in sequence.
TrackerUpdateNoIds(tracker, detections, keep) ==
    [detections |-> Masked(detections, keep),
     tracker |-> [next_id |-> tracker.next_id,
                  updates |-> tracker.updates + 1]]

TrackerUpdate(tracker, detections, keep) ==
    LET kept == Masked(detections, keep)
    IN  [detections |->
             [i \in 1..Len(kept) |->
                 [kept[i] EXCEPT !.tracker_id = tracker.next_id + i - 1]],
         tracker |-> [next_id |-> tracker.next_id + Len(kept),
                      updates |-> tracker.updates + 1]]

\* The tracker called for every frame, empty set or not.
TrackVehiclesUnguarded(tracker, vehicle_detections, keep) ==
    TrackerUpdate(tracker, vehicle_detections, keep)

\* "if len(vehicle_detections) > 0: ... update_with_detections(...)"
TrackVehicles(tracker, vehicle_detections, keep) ==
    IF Len(vehicle_detections) > 0
    THEN TrackerUpdate(tracker, vehicle_detections, keep)
    ELSE [detections |-> vehicle_detections, tracker |-> tracker]

\* vehicle_classes.get(class_id, f"class_{class_id}")
ClassName(class_id) ==
    IF class_id \in DOMAIN vehicle_classes
    THEN vehicle_classes[class_id]
    ELSE "class_" \o ToString(class_id)

\* The label list: "ID:<track> <class> <confidence>", or without the id.
Labels(vehicle_detections) ==
    [i \in 1..Len(vehicle_detections) |->
        [tracker_id |-> vehicle_detections[i].tracker_id,
         class_name |-> ClassName(vehicle_detections[i].class_id),
         confidence |-> vehicle_detections[i].confidence]]

\* The array the caller passed to process_frame.
InputBuffer == "frame"

\* "scene=frame" without the copy: the same array.
SameBuffer(buffer) == buffer

\* ndarray.copy(): an array of its own.
CopyBuffer(buffer) == buffer \o ".copy()"

\* box_annotator.annotate(scene=frame.copy(), ...) followed by the putText
\* of every label at (int(x1), int(y1) - 10): the drawing is recorded as the
\* copied scene (its pixels and the array that holds them) plus the list of
\* boxes and the list of placed labels.
AnnotateWithPlaceholder(frame, vehicle_detections) ==
    [scene |-> frame,
     buffer |-> CopyBuffer(InputBuffer),
     boxes |-> IF vehicle_detections = <<>> THEN <<<<Zero, Zero, Zero, Zero>>>>
               ELSE [i \in 1..Len(vehicle_detections) |->
                        vehicle_detections[i].xyxy],
     labels |-> [i \in 1..Len(vehicle_detections) |->
                    [text |-> Labels(vehicle_detections)[i],
                     org |-> <<RTrunc(vehicle_detections[i].xyxy[1]),
                               RTrunc(vehicle_detections[i].xyxy[2]) - 10>>]]]

Annotate(frame, vehicle_detections) ==
    [scene |-> frame,
     buffer |-> CopyBuffer(InputBuffer),
     boxes |-> [i \in 1..Len(vehicle_detections) |->
                   vehicle_detections[i].xyxy],
     labels |-> [i \in 1..Len(vehicle_detections) |->
                    [text |-> Labels(vehicle_detections)[i],
                     org |-> <<RTrunc(vehicle_detections[i].xyxy[1]),
                               RTrunc(vehicle_detections[i].xyxy[2]) - 10>>]]]

\* fps = 1.0 / inference_time if inference_time > 0 else 0
FpsSampleUnguarded(inference_time) == PyDiv(One, inference_time)

FpsSample(inference_time) ==
    IF RLess(Zero, inference_time) THEN PyDiv(One, inference_time)
    ELSE [raised |-> FALSE, val |-> Zero]

\* fps_history.append(fps); if len(fps_history) > 30: fps_history.pop(0)
PushSampleNoEvict(history, sample) == Append(history, sample)

PushSampleDropNewest(history, sample) ==
    LET h == Append(history, sample)
    IN  IF Len(h) > WindowSize THEN SubSeq(h, 1, Len(h) - 1) ELSE h

PushSample(history, sample) ==
    LET h == Append(history, sample)
    IN  IF Len(h) > WindowSize THEN Tail(h) ELSE h

\* sum(self.fps_history) / len(self.fps_history)
Average(history) == PyDiv(RSum(history), RInt(Len(history)))

\* The "Add performance info" block: the window after the call and the
\* avg_fps shown in the overlay.
PerformanceInfoStale(history, inference_time) ==
    LET fps == FpsSample(inference_time)
        avg == Average(Append(history, fps.val))
    IN  [raised |-> fps.raised \/ avg.raised,
         fps_history |-> IF fps.raised THEN history
                         ELSE PushSample(history, fps.val),
         avg_fps |-> avg.val]

PerformanceInfo(history, inference_time) ==
    LET fps == FpsSample(inference_time)
        window == IF fps.raised THEN history ELSE PushSample(history, fps.val)
        avg == IF fps.raised THEN fps ELSE Average(window)
    IN  [raised |-> fps.raised \/ avg.raised,
         fps_history |-> window,
         avg_fps |-> avg.val]

\* The two overlay lines: "Vehicles | FPS | Frame" at (10, 30) and
\* "Inference | Processed" at (10, 70).
Overlay(frame, vehicle_detections, avg_fps, inference_time, count) ==
    <<[org |-> <<10, 30>>,
       text |-> [vehicles |-> Len(vehicle_detections),
                 fps |-> avg_fps,
                 frame |-> count]],
      [org |-> <<10, 70>>,
       text |-> [inference_ms |-> RMul(inference_time, RInt(1000)),
                 processed |-> <<TargetWidth(frame), target_height>>]]>>

NoAnnotation == [scene |-> [width |-> 0, height |-> 0, index |-> 0],
                 buffer |-> "", boxes |-> <<>>, labels |-> <<>>]

\* What the call has drawn into the array buffer: the annotator draws into
\* its scene and returns it, and every cv2.putText of process_frame draws
\* into annotated_frame.
DrawnOn(buffer, annotated_frame, overlay) ==
    IF annotated_frame.buffer = buffer
    THEN [boxes |-> annotated_frame.boxes, labels |-> annotated_frame.labels,
          overlay |-> overlay]
    ELSE [boxes |-> <<>>, labels |-> <<>>, overlay |-> <<>>]

\* VehicleDetector.process_frame after "self.frame_count += 1": the locals
\* at the return (or at the raise) and the fields it leaves behind.  in is
\* what the third-party parts deliver for this call: results (the boxes of
\* the model, in the downsized frame), raises (the model call fails), keep
\* (the tracker's choice) and inference_time (the measured latency).
process_frame(self, frame, in) ==
    LET early == ResizeRaises(frame) \/ in.raises
    IN  IF early
        THEN [locals |-> [raised |-> TRUE, frame |-> frame, results |-> <<>>,
                          detections |-> <<>>, filtered |-> <<>>,
                          vehicle_detections |-> <<>>,
                          annotated_frame |-> NoAnnotation, overlay |-> <<>>,
                          drawn_on_input |-> DrawnOn(InputBuffer, NoAnnotation,
                                                     <<>>),
                          inference_time |-> in.inference_time,
                          avg_fps |-> Zero],
              fps_history |-> self.fps_history,
              tracker |-> self.tracker]
        ELSE
        LET detections == ScaleDetections(in.results, frame)
            vehicle_detections == filter_vehicles(detections)
            tracked == TrackVehicles(self.tracker, vehicle_detections, in.keep)
            perf == PerformanceInfo(self.fps_history, in.inference_time)
            annotated_frame == IF perf.raised THEN NoAnnotation
                               ELSE Annotate(frame, tracked.detections)
            overlay == IF perf.raised THEN <<>>
                       ELSE Overlay(frame, tracked.detections, perf.avg_fps,
                                    in.inference_time, self.frame_count)
        IN  [locals |->
                 [raised |-> perf.raised,
                  frame |-> frame,
                  results |-> in.results,
                  detections |-> detections,
                  filtered |-> vehicle_detections,
                  vehicle_detections |-> tracked.detections,
                  annotated_frame |-> annotated_frame,
                  overlay |-> overlay,
                  drawn_on_input |-> DrawnOn(InputBuffer, annotated_frame,
                                             overlay),
                  inference_time |-> in.inference_time,
                  avg_fps |-> perf.avg_fps],
             fps_history |-> perf.fps_history,
             tracker |-> tracked.tracker]

\* VehicleDetector.get_performance_stats
get_performance_stats(self) ==
    IF self.fps_history = <<>>
    THEN [avg_fps |-> Zero, total_frames |-> 0]
    ELSE [avg_fps |-> Average(self.fps_history).val,
          total_frames |-> self.frame_count,
          min_fps |-> RMin(self.fps_history),
          max_fps |-> RMax(self.fps_history)]

(* ------------------------------- state -------------------------------- *)

VARIABLES
    frontend,          \* which program runs: "cli", "demo", "gui", "gui_detector",
                       \* "python_detector" or "convert_model"
    pc,                \* position of the main thread (0) and of each playback thread
    loc,               \* the local variable frame of each thread
    cap,               \* the cv2.VideoCapture (self.cap in the GUIs)
    frame_count,       \* VehicleDetector.frame_count
    fps_history,       \* VehicleDetector.fps_history
    tracker,           \* VehicleDetector.tracker (sv.ByteTrack)
    result,            \* locals of the latest process_frame call at its end
    all_samples,       \* history: every sample ever appended to fps_history
    stats,             \* dict returned by the latest get_performance_stats
    latency,           \* inference latency the clock currently measures (s)
    load_changes,      \* times latency has changed
    is_playing,        \* GUI playback flag
    current_frame,     \* GUI frame index
    total_frames,      \* GUI frame count of the loaded video
    fps,               \* GUI frame rate of the loaded video
    processing_times,  \* VehicleGUI.processing_times (ms)
    fps_label,         \* VehicleGUI.fps_label: the rate shown, and whether the
                       \* monitor wrote it (it starts as the text "FPS: 0.0")
    monitor_alive,     \* the performance monitor thread has not left its loop
    displayed,         \* frame shown in the video label
    cleared,           \* history: per playback thread, frames it advanced
                       \* since Pause/Stop last cleared is_playing (-1: not cleared)
    stopped,           \* history: the user event the UI thread handled last
                       \* was Stop
    conf_threshold,    \* VehicleDetector.conf_threshold, in percent
    detector,          \* the front end holds a constructed VehicleDetector
    exit_status,       \* exit status of the process (-1 while it runs)
    log,               \* per thread, the latest message it showed to the user
                       \* (status log, dialog, stdout) and the frame it is about
    output,            \* what python_detector.py printed
    conv               \* convert_model.py: arguments, outcome of each stage and
                       \* files written

detVars == <<frame_count, fps_history, tracker, result, all_samples>>
envVars == <<latency, load_changes>>
guiVarsButStopped == <<is_playing, current_frame, total_frames, fps,
                     processing_times, fps_label, monitor_alive, displayed,
                     cleared>>
guiVars == <<is_playing, current_frame, total_frames, fps, processing_times,
             fps_label, monitor_alive, displayed, cleared, stopped>>
procVars == <<conf_threshold, detector, exit_status, log, output, conv>>
vars == <<frontend, pc, loc, cap, stats, detVars, envVars, guiVars, procVars>>

\* Playback threads that may exist at once in a run.
MaxThreads == 2

Main == 0
Threads == 1..MaxThreads
Contexts == {Main} \cup Threads

NoFrame == [width |-> 0, height |-> 0, index |-> -1, annotated |-> FALSE]
NoCap == [exists |-> FALSE, opened |-> FALSE, frames |-> 0, pos |-> 0,
          width |-> 0, height |-> 0, fps |-> 0]
NoStats == [total_frames |-> -1]
NoResult == [raised |-> TRUE,
             frame |-> [width |-> 0, height |-> 0, index |-> -1],
             results |-> <<>>, detections |-> <<>>, filtered |-> <<>>,
             vehicle_detections |-> <<>>, annotated_frame |-> NoAnnotation,
             overlay |-> <<>>,
             drawn_on_input |-> [boxes |-> <<>>, labels |-> <<>>,
                                 overlay |-> <<>>],
             inference_time |-> Zero, avg_fps |-> Zero]
NoLog == [msg |-> "", frame |-> -1]
NoOutput == [none |-> TRUE]
NoConv == [started |-> FALSE]

\* The VehicleDetector object as process_frame and get_performance_stats see it.
Self == [frame_count |-> frame_count, fps_history |-> fps_history,
         tracker |-> tracker]

\* cv2.VideoCapture(path): a capture object, opened or not.
Capture(video) ==
    [exists |-> TRUE, opened |-> video.opens, frames |-> video.frames, pos |-> 0,
     width |-> video.width, height |-> video.height, fps |-> video.fps]

\* "self.cap" alone, without the isOpened() test.
CapExists == cap.exists

\* "self.cap and self.cap.isOpened()"
CapOpen == cap.exists /\ cap.opened

\* The playback threads that have been started and have not ended.
AliveThreads == {t \in Threads : pc[t] # "none"}

(* ------------------------------- inputs ------------------------------- *)

\* Inference latencies the clock may measure, in seconds: 0 (below the
\* clock's resolution), 1/25 and 1/50.
Latencies == {Zero, Rat(1, 25), Rat(1, 50)}

\* Boxes the model may return for a downsized frame of width tw: the whole
\* frame (touching every border) and its lower right quadrant.
ModelBoxes(tw) ==
    {<<RInt(0), RInt(0), RInt(tw), RInt(target_height)>>,
     <<RInt(tw \div 2), RInt(target_height \div 2), RInt(tw), RInt(target_height)>>}

\* Class ids the model may return: car (2), and two COCO ids that are no
\* key of vehicle_classes (12, 45).
ModelClasses == {2, 12, 45}

\* A car the model is not sure of (confidence 40 percent).  The model is
\* called as self.model(processed_frame, verbose=False), so it applies its
\* own default cut-off (0.25) and everything above that comes back.
FaintCar(frame) ==
    [xyxy |-> <<RInt(0), RInt(0), RInt(TargetWidth(frame)), RInt(target_height)>>,
     class_id |-> 2, confidence |-> 40, tracker_id |-> 0]

\* Detections the model may return: every box with every class at
\* confidence 90 percent, and the faint car.
ModelDetections(frame) ==
    [xyxy : ModelBoxes(TargetWidth(frame)), class_id : ModelClasses,
     confidence : {90}, tracker_id : {0}] \cup {FaintCar(frame)}

\* Results of up to two detections (the same detection may come twice).
ModelResults(frame) ==
    {<<>>} \cup {<<d>> : d \in ModelDetections(frame)}
           \cup {<<d, e>> : d, e \in ModelDetections(frame)}

NoResults(frame) == {<<>>}

\* Frame sizes: 640x480 (no resize), 1920x1080 and 100x37 (target width
\* truncated), 1x481 (target width 0).
FrameSizes == {<<640, 480>>, <<1920, 1080>>, <<100, 37>>, <<1, 481>>}

(* ----------------------------- initial state -------------------------- *)

\* Where the main thread of a front end stands once its VehicleDetector is
\* constructed.
AfterConstruction ==
    IF frontend \in {"cli", "demo"} THEN "cli_open"
    ELSE IF frontend = "python_detector" THEN "df_read"
    ELSE "idle"

\* conf_threshold the front end passes to the constructor, in percent:
\* --conf defaults to 0.3, run_demo passes 0.3, the GUI sliders and
\* python_detector.py default to 0.5.
ConfiguredThreshold == IF frontend \in {"cli", "demo"} THEN 30 ELSE 50

\* State of a front end before (constructed = FALSE) or right after the
\* construction of its VehicleDetector.
InitAt(frontends, constructed) ==
    /\ frontend \in frontends
    /\ pc = [c \in Contexts |->
                IF c = Main
                THEN (IF frontend = "convert_model" THEN "cv_main"
                      ELSE IF constructed THEN AfterConstruction
                      ELSE "construct")
                ELSE "none"]
    /\ detector = constructed
    /\ conf_threshold = ConfiguredThreshold
    /\ loc = [c \in Contexts |-> NoFrame]
    /\ cap = NoCap
    /\ frame_count = 0
    /\ fps_history = <<>>
    /\ tracker = [next_id |-> 1, updates |-> 0]
    /\ result = NoResult
    /\ all_samples = <<>>
    /\ stats = NoStats
    /\ latency \in Latencies
    /\ load_changes = 0
    /\ is_playing = FALSE
    /\ current_frame = 0
    /\ total_frames = 0
    /\ fps = 30
    /\ processing_times = <<>>
    /\ fps_label = [fps |-> Zero, by_monitor |-> FALSE]
    /\ monitor_alive = (frontend = "gui")
    /\ displayed = NoFrame
    /\ cleared = [t \in Threads |-> -1]
    /\ stopped = FALSE
    /\ exit_status = -1
    /\ log = [c \in Contexts |-> NoLog]
    /\ output = NoOutput
    /\ conv = NoConv

InitWith(frontends) == InitAt(frontends, TRUE)

(* ------------------- construction of the VehicleDetector -------------- *)

\* What the third-party loader may do: load and run the dummy inference,
\* fail in YOLO(...), or fail in the dummy inference.
LoadOutcomes == {"ok", "load_fails", "dummy_fails"}

\* load_model with a failure passed on as an ordinary exception.
load_model_reraising(outcome) ==
    IF outcome = "ok" THEN [raised |-> "none", model_version |-> "v8"]
    ELSE [raised |-> "Exception", model_version |-> "unknown"]

\* VehicleDetector.load_model: any exception of the loading or of the dummy
\* inference is answered with two printed lines and sys.exit(1), which
\* raises SystemExit.
load_model(outcome) ==
    IF outcome = "ok" THEN [raised |-> "none", model_version |-> "v8"]
    ELSE [raised |-> "SystemExit", model_version |-> "unknown"]

\* "except Exception": SystemExit derives from BaseException only.
ExceptException(raised) == raised = "Exception"

\* The handler around the construction: initialize_detector of both GUIs
\* and detect_frame construct inside try/except Exception; main and
\* run_demo construct without a handler.
ConstructionGuarded == frontend \in {"gui", "gui_detector", "python_detector"}

\* The process ends: every thread with it (the playback threads are daemons).
Exited == [c \in Contexts |-> "exited"]

\* VehicleDetector(...) at the start of a front end.
Construct(Outcomes) ==
    /\ pc[Main] = "construct"
    /\ \E outcome \in Outcomes :
       LET r == load_model(outcome)
       IN  IF r.raised = "none"
           THEN /\ detector' = TRUE
                /\ pc' = [pc EXCEPT ![Main] = AfterConstruction]
                /\ UNCHANGED <<exit_status, log, output>>
           ELSE IF ConstructionGuarded /\ ExceptException(r.raised)
           THEN /\ UNCHANGED <<detector, exit_status>>
                /\ IF frontend = "python_detector"
                   THEN /\ output' = [error |-> "exception", success |-> FALSE]
                        /\ pc' = [pc EXCEPT ![Main] = "done"]
                        /\ UNCHANGED log
                   ELSE /\ log' = [log EXCEPT ![Main] =
                                      [msg |-> "Error initializing detector",
                                       frame |-> -1]]
                        /\ pc' = [pc EXCEPT ![Main] = "idle"]
                        /\ UNCHANGED output
           ELSE /\ exit_status' = 1
                /\ pc' = Exited
                /\ log' = [log EXCEPT ![Main] =
                              [msg |-> "Failed to load", frame |-> -1]]
                /\ UNCHANGED <<detector, output>>
    /\ UNCHANGED <<frontend, conf_threshold, conv, loc, cap, stats, detVars,
                   envVars, guiVars>>

\* on_model_change of both GUIs: initialize_detector constructs a new
\* VehicleDetector with the slider's confidence and replaces self.detector.
OnModelChange(Outcomes) ==
    /\ frontend \in {"gui", "gui_detector"}
    /\ pc[Main] = "idle"
    /\ \E outcome \in Outcomes :
       LET r == load_model(outcome)
       IN  IF r.raised = "none"
           THEN /\ detector' = TRUE
                /\ frame_count' = 0
                /\ fps_history' = <<>>
                /\ all_samples' = <<>>
                /\ tracker' = [next_id |-> 1, updates |-> 0]
                /\ log' = [log EXCEPT ![Main] =
                              [msg |-> "Detector initialized", frame |-> -1]]
                /\ UNCHANGED <<exit_status, pc>>
           ELSE IF ExceptException(r.raised)
           THEN /\ log' = [log EXCEPT ![Main] =
                              [msg |-> "Error initializing detector",
                               frame |-> -1]]
                /\ UNCHANGED <<detector, exit_status, pc, frame_count,
                               fps_history, all_samples, tracker>>
           ELSE /\ exit_status' = 1
                /\ pc' = Exited
                /\ log' = [log EXCEPT ![Main] =
                              [msg |-> "Failed to load", frame |-> -1]]
                /\ UNCHANGED <<detector, frame_count, fps_history, all_samples,
                               tracker>>
    /\ stopped' = FALSE
    /\ UNCHANGED <<frontend, conf_threshold, output, conv, loc, cap, stats,
                   result, envVars, guiVarsButStopped>>

\* Values the user may leave the confidence slider at, in percent.
SliderConfidences == {10, 50, 100}

\* on_conf_change of both GUIs: "if self.detector:
\* self.detector.conf_threshold = conf"
OnConfChange ==
    /\ frontend \in {"gui", "gui_detector"}
    /\ pc[Main] = "idle"
    /\ \E conf \in SliderConfidences \ {conf_threshold} :
          conf_threshold' = IF detector THEN conf ELSE conf_threshold
    /\ stopped' = FALSE
    /\ UNCHANGED <<frontend, detector, exit_status, log, output, conv, pc, loc,
                   cap, stats, detVars, envVars, guiVarsButStopped>>

(* --------------------- process_frame, called by c --------------------- *)

\* AfterProcessFrame with the handlers of update_frame missing.
AfterProcessFrameUncaught(raised) ==
    IF frontend \in {"cli", "demo"} THEN (IF raised THEN "cli_finally_exc" ELSE "cli_show")
    ELSE IF frontend = "python_detector" THEN "df_emit"
    ELSE IF raised THEN "none" ELSE "uf_finish"

\* Where the caller of process_frame goes on: the CLI loop has no handler
\* around the call ("except KeyboardInterrupt" only, then the finally
\* block), the demo loop has none at all, both GUIs catch the exception
\* inside update_frame, detect_frame catches it and returns an error object.
AfterProcessFrame(raised) ==
    IF frontend \in {"cli", "demo"} THEN (IF raised THEN "cli_finally_exc" ELSE "cli_show")
    ELSE IF frontend = "python_detector" THEN "df_emit"
    ELSE "uf_finish"

\* What the caller tells the user when process_frame raised: both GUIs log
\* "Detection error: ..." in the except clause around the call; the CLI
\* loop has no such clause.
LogAfterProcessFrame(c, raised) ==
    IF raised /\ frontend \in {"gui", "gui_detector"}
    THEN [log EXCEPT ![c] = [msg |-> "Detection error", frame |-> loc[c].index]]
    ELSE log

\* "self.frame_count += 1", the resize and the start of the model call.
\* limit bounds the frames of a run.
PFEnter(c, limit) ==
    /\ pc[c] = "pf_enter"
    /\ frame_count < limit
    /\ frame_count' = frame_count + 1
    /\ pc' = [pc EXCEPT ![c] = "pf_infer"]
    /\ UNCHANGED <<frontend, procVars, loc, cap, stats, fps_history, tracker, result,
                   all_samples, envVars, guiVars>>

\* The model call returns (or raises) and process_frame runs to its end.
\* With detects the model's output ranges over ModelResults, else the model
\* finds nothing.
PFReturn(c, detects, Raises) ==
    /\ pc[c] = "pf_infer"
    /\ LET frame == [width |-> loc[c].width, height |-> loc[c].height,
                     index |-> loc[c].index]
       IN  \E raises \in Raises :
           \E results \in (IF ResizeRaises(frame) \/ raises THEN {<<>>}
                           ELSE IF detects THEN ModelResults(frame)
                           ELSE NoResults(frame)) :
           \E keep \in [1..Len(filter_vehicles(ScaleDetections(results, frame)))
                           -> BOOLEAN] :
           \E r \in {process_frame(Self, frame,
                                   [results |-> results, raises |-> raises,
                                    keep |-> keep, inference_time |-> latency])} :
              /\ result' = r.locals
              /\ fps_history' = r.fps_history
              /\ tracker' = r.tracker
              /\ all_samples' = IF r.locals.raised THEN all_samples
                                ELSE Append(all_samples, FpsSample(latency).val)
              /\ loc' = [loc EXCEPT ![c].annotated = ~r.locals.raised]
              /\ log' = LogAfterProcessFrame(c, r.locals.raised)
              /\ pc' = [pc EXCEPT ![c] = AfterProcessFrame(r.locals.raised)]
    /\ UNCHANGED <<frontend, conf_threshold, detector, exit_status, output, conv,
                   cap, stats, frame_count, envVars, guiVars>>

(* ------------------------ vehicle_detector.main ----------------------- *)

\* cv2.VideoCapture(source); "if not cap.isOpened(): print(Error: Could not
\* open ...); return" in main.  run_demo opens its video without the test.
CliOpen(Sources) ==
    /\ pc[Main] = "cli_open"
    /\ \E video \in Sources :
          /\ cap' = Capture(video)
          /\ IF video.opens \/ frontend = "demo"
             THEN /\ pc' = [pc EXCEPT ![Main] = "cli_read"]
                  /\ UNCHANGED <<log, exit_status>>
             ELSE /\ pc' = [pc EXCEPT ![Main] = "done"]
                  /\ log' = [log EXCEPT ![Main] =
                                [msg |-> "Could not open", frame |-> -1]]
                  /\ exit_status' = 0
    /\ UNCHANGED <<frontend, conf_threshold, detector, output, conv, loc, stats,
                   detVars, envVars, guiVars>>

\* "ret, frame = cap.read(); if not ret: break"
CliRead ==
    /\ pc[Main] = "cli_read"
    /\ IF cap.opened /\ cap.pos < cap.frames
       THEN /\ loc' = [loc EXCEPT ![Main] =
                          [width |-> cap.width, height |-> cap.height,
                           index |-> cap.pos, annotated |-> FALSE]]
            /\ cap' = [cap EXCEPT !.pos = cap.pos + 1]
            /\ pc' = [pc EXCEPT ![Main] = "pf_enter"]
       ELSE /\ pc' = [pc EXCEPT ![Main] = "cli_finally"]
            /\ UNCHANGED <<loc, cap>>
    /\ UNCHANGED <<frontend, procVars, stats, detVars, envVars, guiVars>>

\* imshow and waitKey: 'q' leaves the loop.
CliShow ==
    /\ pc[Main] = "cli_show"
    /\ displayed' = loc[Main]
    /\ loc' = [loc EXCEPT ![Main] = NoFrame]
    /\ \E key \in {"q", "none"} :
          pc' = [pc EXCEPT ![Main] = IF key = "q" THEN "cli_finally" ELSE "cli_read"]
    /\ UNCHANGED <<frontend, procVars, cap, stats, detVars, envVars, is_playing,
                   current_frame, total_frames, fps, processing_times, fps_label,
                   monitor_alive, cleared,
                   stopped>>

\* main: the finally block: release, then the summary, which reads
\* total_frames, avg_fps, min_fps and max_fps from the stats dict (a missing
\* key raises); an exception that left the loop is re-raised after it.
\* run_demo: after the loop release and a summary that reads avg_fps only;
\* an exception in the loop skips both.
CliFinally ==
    /\ pc[Main] \in {"cli_finally", "cli_finally_exc"}
    /\ IF frontend = "demo" /\ pc[Main] = "cli_finally_exc"
       THEN UNCHANGED <<cap, stats>>
       ELSE /\ cap' = [cap EXCEPT !.opened = FALSE]
            /\ stats' = get_performance_stats(Self)
    /\ LET fails == \/ pc[Main] = "cli_finally_exc"
                    \/ /\ frontend = "cli"
                       /\ {"min_fps", "max_fps"} \ DOMAIN stats' # {}
       IN  /\ pc' = [pc EXCEPT ![Main] = IF fails THEN "crashed" ELSE "done"]
           /\ exit_status' = IF fails THEN 1 ELSE 0
    /\ UNCHANGED <<frontend, conf_threshold, detector, log, output, conv, loc,
                   detVars, envVars, guiVars>>

(* ------------------------ models/convert_model.py --------------------- *)

\* Paths as a flag (absolute or not) and the list of their components.
RelPath(parts) == [abs |-> FALSE, parts |-> parts]
AbsPath(parts) == [abs |-> TRUE, parts |-> parts]

\* os.path.join(a, b): an absolute b discards a.
PathJoin(a, b) == IF b.abs THEN b ELSE [abs |-> a.abs, parts |-> a.parts \o b.parts]

\* Command lines: --model, --output, --output-dir, --no-quantize, --no-nms
\* (--input-size left at its default).
ConvertArgs ==
    [model : {RelPath(<<"yolov8n.pt">>), RelPath(<<"yolov8s.pt">>)},
     output : {RelPath(<<"yolov8n_optimized.mlmodel">>),
               AbsPath(<<"tmp", "out.mlmodel">>)},
     output_dir : {RelPath(<<".">>), RelPath(<<"build">>)},
     input_size : {416},
     no_quantize : BOOLEAN,
     no_nms : BOOLEAN]

\* What a stage of the conversion may do.  The optimisation stage may also
\* fail after mlmodel.save, while it prints the model information.
StageOutcomes == {"ok", "fails"}
OptimiseOutcomes == {"ok", "fails", "fails_after_save"}

\* The return value with the failure of the last stage ignored.
ConversionSucceededUnchecked(load, export, optimise) ==
    load = "ok" /\ export = "ok"

\* The return value of convert_yolo_to_coreml: every except clause returns
\* False, the end of the last try block returns True.
ConversionSucceeded(load, export, optimise) ==
    load = "ok" /\ export = "ok" /\ optimise = "ok"

\* main up to the call of convert_yolo_to_coreml: parse the arguments and
\* os.makedirs(args.output_dir, exist_ok=True).
CvMain ==
    /\ pc[Main] = "cv_main"
    /\ \E args \in ConvertArgs :
          conv' = [started |-> TRUE, args |-> args,
                   output_path |-> PathJoin(args.output_dir, args.output),
                   quantize |-> ~args.no_quantize,
                   include_nms |-> ~args.no_nms,
                   load |-> "pending", export |-> "pending",
                   optimise |-> "pending", files |-> {}]
    /\ pc' = [pc EXCEPT ![Main] = "cv_load"]
    /\ UNCHANGED <<frontend, conf_threshold, detector, exit_status, log, output,
                   loc, cap, stats, detVars, envVars, guiVars>>

\* "model = YOLO(model_path)"; except: print, return False.
CvLoad ==
    /\ pc[Main] = "cv_load"
    /\ \E outcome \in StageOutcomes :
          /\ conv' = [conv EXCEPT !.load = outcome]
          /\ pc' = [pc EXCEPT ![Main] = IF outcome = "ok" THEN "cv_export"
                                        ELSE "cv_finish"]
          /\ log' = IF outcome = "ok" THEN log
                    ELSE [log EXCEPT ![Main] =
                             [msg |-> "Error loading model", frame |-> -1]]
    /\ UNCHANGED <<frontend, conf_threshold, detector, exit_status, output, loc,
                   cap, stats, detVars, envVars, guiVars>>

\* "model.export(format='coreml', ...)", which writes the exported model
\* next to the input model; except: print, return False.
CvExport ==
    /\ pc[Main] = "cv_export"
    /\ \E outcome \in StageOutcomes :
          /\ conv' = [conv EXCEPT
                         !.export = outcome,
                         !.files = IF outcome = "ok"
                                   THEN @ \cup {RelPath(<<"exported">>)} ELSE @]
          /\ pc' = [pc EXCEPT ![Main] = IF outcome = "ok" THEN "cv_optimise"
                                        ELSE "cv_finish"]
          /\ log' = IF outcome = "ok" THEN log
                    ELSE [log EXCEPT ![Main] =
                             [msg |-> "Error during export", frame |-> -1]]
    /\ UNCHANGED <<frontend, conf_threshold, detector, exit_status, output, loc,
                   cap, stats, detVars, envVars, guiVars>>

\* The last try block: MLModel('yolov8n.mlmodel'), quantize_weights,
\* compute_units, mlmodel.save(output_path), the model information, return
\* True; except: print, return False.
CvOptimise ==
    /\ pc[Main] = "cv_optimise"
    /\ \E outcome \in OptimiseOutcomes :
          /\ conv' = [conv EXCEPT
                         !.optimise = IF outcome = "ok" THEN "ok" ELSE "fails",
                         !.files = IF outcome = "fails" THEN @
                                   ELSE @ \cup {conv.output_path}]
          /\ log' = IF outcome = "ok" THEN log
                    ELSE [log EXCEPT ![Main] =
                             [msg |-> "Error during optimization", frame |-> -1]]
    /\ pc' = [pc EXCEPT ![Main] = "cv_finish"]
    /\ UNCHANGED <<frontend, conf_threshold, detector, exit_status, output, loc,
                   cap, stats, detVars, envVars, guiVars>>

\* main after the call: "if success: create_model_config(args.output_dir)
\* ... else: print(failed); sys.exit(1)".  create_model_config writes
\* model_config.json into the output directory.
CvFinish ==
    /\ pc[Main] = "cv_finish"
    /\ IF ConversionSucceeded(conv.load, conv.export, conv.optimise)
       THEN /\ conv' = [conv EXCEPT !.files =
                           @ \cup {PathJoin(conv.args.output_dir,
                                            RelPath(<<"model_config.json">>))}]
            /\ exit_status' = 0
            /\ pc' = [pc EXCEPT ![Main] = "done"]
            /\ log' = [log EXCEPT ![Main] =
                          [msg |-> "Model conversion completed successfully",
                           frame |-> -1]]
       ELSE /\ exit_status' = 1
            /\ pc' = Exited
            /\ log' = [log EXCEPT ![Main] =
                          [msg |-> "Model conversion failed", frame |-> -1]]
            /\ UNCHANGED conv
    /\ UNCHANGED <<frontend, conf_threshold, detector, output, loc, cap, stats,
                   detVars, envVars, guiVars>>

(* -------------------- python_detector.detect_frame -------------------- *)

\* Images the script may be pointed at: an unreadable path and two pictures.
Images ==
    {[readable |-> FALSE, width |-> 0, height |-> 0],
     [readable |-> TRUE, width |-> 640, height |-> 480],
     [readable |-> TRUE, width |-> 1920, height |-> 1080]}

coco_classes == <<"person", "bicycle", "car", "motorcycle", "airplane", "bus",
                  "train", "truck", "boat">>

\* The JSON-serialisable entry built for detection i.
DetectionEntry(detections, i) ==
    [bbox |-> detections[i].xyxy,
     track_id |-> detections[i].tracker_id,
     confidence |-> detections[i].confidence,
     class_id |-> detections[i].class_id,
     class_name |-> IF detections[i].class_id < Len(coco_classes)
                    THEN coco_classes[detections[i].class_id + 1]
                    ELSE "class_" \o ToString(detections[i].class_id)]

\* "frame = cv2.imread(image_path); if frame is None: return json.dumps(
\* {"error": "Could not load image"})"
DFRead ==
    /\ pc[Main] = "df_read"
    /\ \E image \in Images :
          IF image.readable
          THEN /\ loc' = [loc EXCEPT ![Main] =
                             [width |-> image.width, height |-> image.height,
                              index |-> 0, annotated |-> FALSE]]
               /\ pc' = [pc EXCEPT ![Main] = "pf_enter"]
               /\ UNCHANGED <<output, exit_status>>
          ELSE /\ output' = [error |-> "Could not load image"]
               /\ pc' = [pc EXCEPT ![Main] = "done"]
               /\ exit_status' = 0
               /\ UNCHANGED loc
    /\ UNCHANGED <<frontend, conf_threshold, detector, log, conv, cap, stats,
                   detVars, envVars, guiVars>>

\* The rest of detect_frame and the print in __main__: the detections as a
\* list of entries with "success": true, or, from the except clause, an
\* error object with "success": false.
DFEmit ==
    /\ pc[Main] = "df_emit"
    /\ output' =
          IF result.raised
          THEN [error |-> "exception", success |-> FALSE]
          ELSE [detections |->
                    [i \in 1..Len(result.vehicle_detections) |->
                        DetectionEntry(result.vehicle_detections, i)],
                success |-> TRUE]
    /\ pc' = [pc EXCEPT ![Main] = "done"]
    /\ exit_status' = 0
    /\ loc' = [loc EXCEPT ![Main] = NoFrame]
    /\ UNCHANGED <<frontend, conf_threshold, detector, log, conv, cap, stats,
                   detVars, envVars, guiVars>>

(* ------------------------- update_frame, run by c --------------------- *)

\* update_frame returns to the idle main loop or into play_loop's sleep.
AfterUpdateFrame(c) == IF c = Main THEN "idle" ELSE "pl_sleep"

\* "if not self.cap or not self.cap.isOpened(): return", then
\* cap.set(CAP_PROP_POS_FRAMES, self.current_frame)
UFSeek(c) ==
    /\ pc[c] = "uf_seek"
    /\ IF CapOpen
       THEN /\ cap' = [cap EXCEPT !.pos = current_frame]
            /\ pc' = [pc EXCEPT ![c] = "uf_read"]
       ELSE /\ pc' = [pc EXCEPT ![c] = AfterUpdateFrame(c)]
            /\ UNCHANGED cap
    /\ UNCHANGED <<frontend, procVars, loc, stats, detVars, envVars, guiVars>>

\* "ret, frame = self.cap.read(); if not ret: return"; gui.py then halves
\* the frame (downsample is on, downsample_factor 0.5); "if self.detector:"
\* guards the call of process_frame.
UFRead(c) ==
    /\ pc[c] = "uf_read"
    /\ IF CapOpen /\ cap.pos >= 0 /\ cap.pos < cap.frames
       THEN /\ loc' = [loc EXCEPT ![c] =
                          [width |-> IF frontend = "gui" THEN cap.width \div 2
                                     ELSE cap.width,
                           height |-> IF frontend = "gui" THEN cap.height \div 2
                                      ELSE cap.height,
                           index |-> cap.pos, annotated |-> FALSE]]
            /\ cap' = [cap EXCEPT !.pos = cap.pos + 1]
            /\ pc' = [pc EXCEPT ![c] = IF detector THEN "pf_enter"
                                       ELSE "uf_finish"]
       ELSE /\ pc' = [pc EXCEPT ![c] = AfterUpdateFrame(c)]
            /\ UNCHANGED <<loc, cap>>
    /\ UNCHANGED <<frontend, procVars, stats, detVars, envVars, guiVars>>

\* gui.py: self.processing_times.append(processing_time);
\* "if len(self.processing_times) > 30: self.processing_times.pop(0)"
PushTimeOffByOne(times, processing_time) ==
    LET t == Append(times, processing_time)
    IN  IF Len(t) > WindowSize + 1 THEN Tail(t) ELSE t

PushTime(times, processing_time) ==
    LET t == Append(times, processing_time)
    IN  IF Len(t) > WindowSize THEN Tail(t) ELSE t

\* The rest of update_frame after the detection: gui.py records
\* processing_time = (time.time() - start_time) * 1000 in its window; both
\* front ends then resize the frame for display and update the video label.
\* Nothing here is read by the control flow of another thread, so the
\* statements are taken as one step.
UFFinish(c) ==
    /\ pc[c] = "uf_finish"
    /\ processing_times' =
          IF frontend = "gui"
          THEN PushTime(processing_times, RMul(latency, RInt(1000)))
          ELSE processing_times
    /\ displayed' = loc[c]
    /\ loc' = [loc EXCEPT ![c] = NoFrame]
    /\ pc' = [pc EXCEPT ![c] = AfterUpdateFrame(c)]
    /\ UNCHANGED <<frontend, procVars, cap, stats, detVars, envVars, is_playing,
                   current_frame, total_frames, fps, fps_label, monitor_alive,
                   cleared,
                   stopped>>

(* ------------------- GUI event handlers (main thread) ------------------ *)

\* Pause or Stop clearing is_playing: every running playback thread starts
\* counting the frames it advances from here on.
ClearedBy(flag_was_set) ==
    [t \in Threads |-> IF flag_was_set /\ pc[t] # "none" THEN 0 ELSE cleared[t]]

\* open_video / load_video: release the old capture, open the new one; on
\* failure an error dialog and return, else the video's properties are read
\* and update_frame shows frame 0.
OpenVideo(Videos) ==
    /\ pc[Main] = "idle"
    /\ \E video \in Videos :
          /\ cap' = Capture(video)
          /\ IF video.opens
             THEN /\ total_frames' = video.frames
                  /\ fps' = video.fps
                  /\ current_frame' = 0
                  /\ pc' = [pc EXCEPT ![Main] = "uf_seek"]
                  /\ log' = [log EXCEPT ![Main] =
                                [msg |-> "Loaded", frame |-> -1]]
             ELSE /\ log' = [log EXCEPT ![Main] =
                                [msg |-> "Could not open video file",
                                 frame |-> -1]]
                  /\ UNCHANGED <<total_frames, fps, current_frame, pc>>
    /\ stopped' = FALSE
    /\ UNCHANGED <<frontend, conf_threshold, detector, exit_status, output, conv,
                   loc, stats, detVars, envVars, is_playing, processing_times,
                   fps_label, monitor_alive, displayed, cleared>>

\* toggle_playback and play_video: flip the flag; when it becomes true a
\* new daemon thread running play_loop is started.
TogglePlayback ==
    /\ pc[Main] = "idle"
    /\ CapOpen
    /\ is_playing' = ~is_playing
    /\ IF ~is_playing
       THEN /\ \E t \in Threads :
                  /\ pc[t] = "none"
                  /\ \A u \in Threads : u < t => pc[u] # "none"
                  /\ pc' = [pc EXCEPT ![t] = "pl_check"]
            /\ UNCHANGED cleared
       ELSE /\ cleared' = ClearedBy(TRUE)
            /\ UNCHANGED pc
    /\ stopped' = FALSE
    /\ UNCHANGED <<frontend, procVars, loc, cap, stats, detVars, envVars, current_frame,
                   total_frames, fps, processing_times, fps_label, monitor_alive,
                   displayed>>

\* stop_video: clear the flag; with an open capture rewind and show frame 0.
StopVideo ==
    /\ pc[Main] = "idle"
    /\ is_playing' = FALSE
    /\ cleared' = ClearedBy(is_playing)
    /\ IF CapOpen
       THEN /\ current_frame' = 0
            /\ pc' = [pc EXCEPT ![Main] = "uf_seek"]
       ELSE UNCHANGED <<current_frame, pc>>
    /\ stopped' = TRUE
    /\ UNCHANGED <<frontend, procVars, loc, cap, stats, detVars, envVars, total_frames, fps,
                   processing_times, fps_label, monitor_alive, displayed>>

\* Positions the user leaves the frame slider at: its two ends.
SliderPicks == {0, total_frames - 1}

\* on_frame_change: "self.current_frame = self.frame_var.get()", update_frame.
OnFrameChange ==
    /\ pc[Main] = "idle"
    /\ CapOpen
    /\ \E v \in SliderPicks : current_frame' = v
    /\ pc' = [pc EXCEPT ![Main] = "uf_seek"]
    /\ stopped' = FALSE
    /\ UNCHANGED <<frontend, procVars, loc, cap, stats, detVars, envVars, is_playing,
                   total_frames, fps, processing_times, fps_label, monitor_alive,
                   displayed, cleared>>

(* ------------------------ play_loop, run by thread t ------------------- *)

\* The end-of-video test with the bound one too high.
MoreFramesOffByOne == current_frame < total_frames

\* "if self.current_frame < self.total_frames - 1"
MoreFrames == current_frame < total_frames - 1

\* "while self.is_playing and self.cap and self.cap.isOpened():" and the
\* test "if self.current_frame < self.total_frames - 1"; the else branch
\* clears the flag and leaves the loop.
PlCheck(t) ==
    /\ pc[t] = "pl_check"
    /\ IF is_playing /\ CapOpen
       THEN IF MoreFrames
            THEN /\ pc' = [pc EXCEPT ![t] = "pl_inc"]
                 /\ UNCHANGED <<is_playing, cleared>>
            ELSE /\ is_playing' = FALSE
                 /\ pc' = [pc EXCEPT ![t] = "none"]
                 /\ cleared' = [cleared EXCEPT ![t] = -1]
       ELSE /\ pc' = [pc EXCEPT ![t] = "none"]
            /\ cleared' = [cleared EXCEPT ![t] = -1]
            /\ UNCHANGED is_playing
    /\ UNCHANGED <<frontend, procVars, loc, cap, stats, detVars, envVars, current_frame,
                   total_frames, fps, processing_times, fps_label, monitor_alive,
                   displayed,
                   stopped>>

\* "self.current_frame += 1; self.frame_var.set(...)", then update_frame.
PlInc(t) ==
    /\ pc[t] = "pl_inc"
    /\ current_frame' = current_frame + 1
    /\ cleared' = [cleared EXCEPT ![t] = IF @ \in {0, 1} THEN @ + 1 ELSE @]
    /\ pc' = [pc EXCEPT ![t] = "uf_seek"]
    /\ UNCHANGED <<frontend, procVars, loc, cap, stats, detVars, envVars, is_playing,
                   total_frames, fps, processing_times, fps_label, monitor_alive,
                   displayed,
                   stopped>>

\* "time.sleep(1.0 / self.fps)": a zero frame rate raises; gui.py catches it
\* (and clears the flag), in gui_detector.py the thread dies of it.
PlSleep(t) ==
    /\ pc[t] = "pl_sleep"
    /\ IF PyDiv(One, RInt(fps)).raised
       THEN /\ pc' = [pc EXCEPT ![t] = "none"]
            /\ cleared' = [cleared EXCEPT ![t] = -1]
            /\ is_playing' = IF frontend = "gui" THEN FALSE ELSE is_playing
       ELSE /\ pc' = [pc EXCEPT ![t] = "pl_check"]
            /\ UNCHANGED <<is_playing, cleared>>
    /\ UNCHANGED <<frontend, procVars, loc, cap, stats, detVars, envVars, current_frame,
                   total_frames, fps, processing_times, fps_label, monitor_alive,
                   displayed,
                   stopped>>

(* -------------------- VehicleGUI performance monitor ------------------- *)

\* fps = 1000 / avg_processing if avg_processing > 0 else 0
MonitorFpsUnguarded(times) == PyDiv(RInt(1000), Average(times).val)

MonitorFps(times) ==
    LET avg_processing == Average(times).val
    IN  IF RLess(Zero, avg_processing) THEN PyDiv(RInt(1000), avg_processing)
        ELSE [raised |-> FALSE, val |-> Zero]

\* One round of monitor(): with more than one sample the FPS label is
\* recomputed; any exception ends the monitor ("except: break").
MonitorTick ==
    /\ frontend = "gui"
    /\ monitor_alive
    /\ Len(processing_times) > 1
    /\ LET m == MonitorFps(processing_times)
       IN  IF m.raised
           THEN /\ monitor_alive' = FALSE
                /\ UNCHANGED fps_label
           ELSE /\ fps_label' = [fps |-> m.val, by_monitor |-> TRUE]
                /\ UNCHANGED monitor_alive
    /\ UNCHANGED <<frontend, procVars, pc, loc, cap, stats, detVars, envVars, is_playing,
                   current_frame, total_frames, fps, processing_times, displayed,
                   cleared,
                   stopped>>

(* ------------------------------ environment --------------------------- *)

\* The measured inference latency changes (load, clock resolution).
LoadChange ==
    /\ load_changes < MaxLoadChanges
    /\ \E l \in Latencies \ {latency} : latency' = l
    /\ load_changes' = load_changes + 1
    /\ UNCHANGED <<frontend, procVars, pc, loc, cap, stats, detVars, guiVars>>

(* ---------------------------- specifications -------------------------- *)

\* Frames a run of the pipeline specification processes.
MaxPipelineFrames == 2

\* Frames a run of the GUI specification processes.
MaxGuiFrames == 3

\* The sampler specification: the CLI loop over one long source, a model
\* that finds nothing, a latency that varies.
SamplerSources ==
    {[opens |-> TRUE, frames |-> MaxFrames, width |-> 640, height |-> 480,
      fps |-> 30]}

Init == InitWith({"cli"})

Next ==
    \/ CliOpen(SamplerSources)
    \/ CliRead
    \/ PFEnter(Main, MaxFrames)
    \/ PFReturn(Main, FALSE, {FALSE})
    \/ CliShow
    \/ CliFinally
    \/ LoadChange

Spec == Init /\ [][Next]_vars

\* The monitor specification: VehicleGUI driven from its main thread alone
\* (the user opens a one-frame clip and never presses Play/Pause), with its
\* performance monitor; the latency is any of Latencies, the same all run.
MonitorClips ==
    {[opens |-> TRUE, frames |-> 1, width |-> 640, height |-> 480, fps |-> 30]}

InitMonitor == InitWith({"gui"})

NextMonitor ==
    \/ OpenVideo(MonitorClips)
    \/ StopVideo
    \/ OnFrameChange
    \/ UFSeek(Main)
    \/ UFRead(Main)
    \/ PFEnter(Main, MaxFrames)
    \/ PFReturn(Main, FALSE, {FALSE})
    \/ UFFinish(Main)
    \/ MonitorTick

SpecMonitor == InitMonitor /\ [][NextMonitor]_vars

\* The pipeline specification: the CLI loop over short sources of every
\* frame size, with every result the model may return.
PipelineSources ==
    {[opens |-> TRUE, frames |-> MaxPipelineFrames, width |-> size[1],
      height |-> size[2], fps |-> 30] : size \in FrameSizes}

InitPipeline == InitWith({"cli"}) /\ latency = Rat(1, 25)

NextPipeline ==
    \/ CliOpen(PipelineSources)
    \/ CliRead
    \/ PFEnter(Main, MaxPipelineFrames)
    \/ PFReturn(Main, TRUE, {FALSE})
    \/ CliShow
    \/ CliFinally

SpecPipeline == InitPipeline /\ [][NextPipeline]_vars

\* The GUI specification: both tkinter front ends with their playback
\* threads, on a three-frame video.
GuiVideos ==
    {[opens |-> TRUE, frames |-> 3, width |-> 640, height |-> 480, fps |-> 30]}

InitGui == InitWith({"gui", "gui_detector"}) /\ latency = Rat(1, 25)

NextGui ==
    \/ OpenVideo(GuiVideos)
    \/ TogglePlayback
    \/ StopVideo
    \/ OnFrameChange
    \/ \E c \in Contexts :
          \/ UFSeek(c)
          \/ UFRead(c)
          \/ PFEnter(c, MaxGuiFrames)
          \/ PFReturn(c, FALSE, {FALSE})
          \/ UFFinish(c)
    \/ \E t \in Threads :
          \/ PlCheck(t)
          \/ PlInc(t)
          \/ PlSleep(t)

SpecGui == InitGui /\ [][NextGui]_vars

\* The GUI fault specification: both tkinter front ends playing a video
\* with a detector whose process_frame may raise on any frame.  The user
\* loads one video and presses Play only when no playback thread of an
\* earlier Play is still running (Pause at any time).
InitGuiFaults == InitWith({"gui", "gui_detector"}) /\ latency = Rat(1, 25)

LoadFirstVideo == ~cap.exists /\ OpenVideo(GuiVideos)

PatientPlayPause ==
    /\ is_playing \/ \A t \in Threads : pc[t] = "none"
    /\ TogglePlayback

NextGuiFaults ==
    \/ LoadFirstVideo
    \/ PatientPlayPause
    \/ \E c \in Contexts :
          \/ UFSeek(c)
          \/ UFRead(c)
          \/ PFEnter(c, MaxGuiFrames)
          \/ PFReturn(c, FALSE, BOOLEAN)
          \/ UFFinish(c)
    \/ \E t \in Threads :
          \/ PlCheck(t)
          \/ PlInc(t)
          \/ PlSleep(t)

SpecGuiFaults == InitGuiFaults /\ [][NextGuiFaults]_vars

\* The open-failure specification: the CLI, and both GUIs with their
\* handlers and playback thread, on sources that may fail to open.
UnopenableVideo ==
    [opens |-> FALSE, frames |-> 0, width |-> 0, height |-> 0, fps |-> 0]

OpenFailSources == PipelineSources \cup {UnopenableVideo}

OpenFailVideos == GuiVideos \cup {UnopenableVideo}

InitOpenFail == InitWith({"cli", "gui", "gui_detector"}) /\ latency = Rat(1, 25)

NextOpenFail ==
    \/ CliOpen(OpenFailSources)
    \/ CliRead
    \/ CliShow
    \/ CliFinally
    \/ OpenVideo(OpenFailVideos)
    \/ PatientPlayPause
    \/ StopVideo
    \/ OnFrameChange
    \/ \E c \in Contexts :
          \/ UFSeek(c)
          \/ UFRead(c)
          \/ PFEnter(c, MaxPipelineFrames)
          \/ PFReturn(c, FALSE, {FALSE})
          \/ UFFinish(c)
    \/ \E t \in Threads :
          \/ PlCheck(t)
          \/ PlInc(t)
          \/ PlSleep(t)

SpecOpenFail == InitOpenFail /\ [][NextOpenFail]_vars

\* The loop fault specification: the CLI loop and the demo loop over short
\* sources, with a detector whose process_frame may raise on any frame.
InitLoopFaults == InitWith({"cli", "demo"})

NextLoopFaults ==
    \/ CliOpen(PipelineSources)
    \/ CliRead
    \/ PFEnter(Main, MaxPipelineFrames)
    \/ PFReturn(Main, FALSE, BOOLEAN)
    \/ CliShow
    \/ CliFinally

SpecLoopFaults == InitLoopFaults /\ [][NextLoopFaults]_vars

\* The start-up specification: every front end that constructs a
\* VehicleDetector, from before the construction, with a model that may
\* fail to load; afterwards the front end works on one short source (of one
\* frame or of none) on its main thread (the GUIs may change the model).
StartupSources ==
    {[opens |-> o, frames |-> n, width |-> 640, height |-> 480, fps |-> 30] :
        o \in BOOLEAN, n \in {0, 1}}

InitStartup ==
    /\ InitAt({"cli", "demo", "gui", "gui_detector", "python_detector"}, FALSE)
    /\ latency = Rat(1, 25)

NextStartup ==
    \/ Construct(LoadOutcomes)
    \/ OnModelChange(LoadOutcomes)
    \/ OnConfChange
    \/ CliOpen(StartupSources)
    \/ CliRead
    \/ CliShow
    \/ CliFinally
    \/ DFRead
    \/ DFEmit
    \/ LoadFirstVideo
    \/ UFSeek(Main)
    \/ UFRead(Main)
    \/ UFFinish(Main)
    \/ PFEnter(Main, MaxPipelineFrames)
    \/ PFReturn(Main, TRUE, BOOLEAN)

SpecStartup == InitStartup /\ [][NextStartup]_vars

\* The playback specification: both tkinter front ends, a video of one to
\* MaxGuiFrames frames whose reported frame rate is 30 or 0, and a user who
\* acts only while nothing plays: loads the video, may move the slider,
\* presses Play, and then leaves the playback alone.
PlaybackVideos ==
    {[opens |-> TRUE, frames |-> n, width |-> 640, height |-> 480, fps |-> f] :
        n \in 1..MaxGuiFrames, f \in {0, 30}}

\* process_frame calls of a run: the load, the slider, one pass through the
\* video.
PlaybackCalls == 2 * MaxGuiFrames + 1

AtRest ==
    /\ ~is_playing
    /\ AliveThreads = {}
    /\ frame_count + total_frames <= PlaybackCalls

PlaybackStep ==
    \E t \in Threads :
       \/ PlCheck(t)
       \/ PlInc(t)
       \/ UFSeek(t)
       \/ UFRead(t)
       \/ PFEnter(t, PlaybackCalls)
       \/ PFReturn(t, FALSE, BOOLEAN)
       \/ UFFinish(t)
       \/ PlSleep(t)

InitPlayback == InitWith({"gui", "gui_detector"}) /\ latency = Rat(1, 25)

NextPlayback ==
    \/ ~cap.exists /\ OpenVideo(PlaybackVideos)
    \/ AtRest /\ OnFrameChange
    \/ AtRest /\ TogglePlayback
    \/ UFSeek(Main)
    \/ UFRead(Main)
    \/ PFEnter(Main, PlaybackCalls)
    \/ PFReturn(Main, FALSE, BOOLEAN)
    \/ UFFinish(Main)
    \/ PlaybackStep

\* The scheduler runs a playback thread that can take a step, and every
\* model call of a playback thread ends, by returning or by raising.
PlaybackFairness ==
    \A t \in Threads :
       /\ WF_vars(PlCheck(t))
       /\ WF_vars(PlInc(t))
       /\ WF_vars(UFSeek(t))
       /\ WF_vars(UFRead(t))
       /\ WF_vars(PFEnter(t, PlaybackCalls))
       /\ []<>(pc[t] # "pf_infer")
       /\ WF_vars(UFFinish(t))
       /\ WF_vars(PlSleep(t))

SpecPlayback == InitPlayback /\ [][NextPlayback]_vars /\ PlaybackFairness

\* The conversion specification: one run of convert_model.py with any of
\* the command lines, each stage succeeding or failing.
InitConvert == InitAt({"convert_model"}, FALSE)

NextConvert ==
    \/ CvMain
    \/ CvLoad
    \/ CvExport
    \/ CvOptimise
    \/ CvFinish

SpecConvert == InitConvert /\ [][NextConvert]_vars

(* -------------------------------- claims ------------------------------ *)

Min(a, b) == IF a < b THEN a ELSE b

\* The latest process_frame call returned normally.
Returned == ~result.raised

\* C1: after any sequence of process_frame calls fps_history holds at most
\* 30 entries, and after any sequence of update_frame calls the GUI's
\* processing_times holds at most 30 entries.
C1_WindowBound ==
    /\ Len(fps_history) <= WindowSize
    /\ Len(processing_times) <= WindowSize

\* Both windows are full and more than 30 frames have gone through.
C1_Witness ==
    /\ frame_count > WindowSize
    /\ Len(fps_history) = WindowSize
    /\ Len(processing_times) = WindowSize

\* C2: eviction is oldest-first: after n successful calls the window holds
\* exactly the samples of the last min(n, 30) calls, in arrival order (so
\* each call past the 30th removed exactly the one oldest sample).
C2_OldestFirst ==
    LET n == Len(all_samples)
    IN  fps_history = SubSeq(all_samples, n - Min(n, WindowSize) + 1, n)

\* Two samples have been evicted, and the window now starts with a sample
\* of another value than the first one evicted.
C2_Witness ==
    /\ Len(all_samples) = WindowSize + 2
    /\ Head(all_samples) # Head(fps_history)

\* C3: the average the sampler reports (avg_fps of the overlay, avg_fps of
\* get_performance_stats) is the sum of the entries now in the window
\* divided by their count, also right after an eviction.
C3_AverageOverWindow ==
    /\ Returned =>
          RMul(result.avg_fps, RInt(Len(fps_history))) = RSum(fps_history)
    /\ (pc[Main] \in {"done", "crashed"} /\ "avg_fps" \in DOMAIN stats
            /\ fps_history # <<>>) =>
          RMul(stats.avg_fps, RInt(Len(fps_history))) = RSum(fps_history)

\* The summary was taken after an eviction that changed the sum: the
\* evicted sample differs from the one that came in.
C3_Witness ==
    /\ pc[Main] = "done"
    /\ "avg_fps" \in DOMAIN stats
    /\ Len(all_samples) > WindowSize
    /\ all_samples[Len(all_samples) - WindowSize] # all_samples[Len(all_samples)]
    /\ Returned

\* C4: a measured inference time of zero causes no division by zero: the
\* call returns normally with an FPS sample of 0 recorded; and the GUI's
\* performance monitor shows FPS 0 (and keeps running) when the average
\* processing time is zero.
C4_NoDivisionByZero ==
    /\ (result.frame.index >= 0 /\ result.inference_time = Zero) =>
          /\ Returned
          /\ fps_history # <<>>
          /\ fps_history[Len(fps_history)] = Zero
    /\ frontend = "gui" => monitor_alive
    /\ (fps_label.by_monitor /\ RSum(processing_times) = Zero) =>
          fps_label.fps = Zero

\* A frame with zero inference time has been processed and the monitor has
\* computed the rate over a window of zero processing times.
C4_Witness ==
    /\ result.frame.index >= 0
    /\ result.inference_time = Zero
    /\ Len(processing_times) > 1
    /\ RSum(processing_times) = Zero
    /\ fps_label.by_monitor

\* C5: filter_vehicles returns exactly the detections whose class id is a
\* key of vehicle_classes, each once and in the original order; and no
\* detection returned by process_frame has a class id outside that set.
AllowedClass(d) == d.class_id \in DOMAIN vehicle_classes

C5_FilterExact ==
    Returned =>
       /\ result.filtered = SelectSeq(result.detections, AllowedClass)
       /\ \A i \in 1..Len(result.vehicle_detections) :
             AllowedClass(result.vehicle_detections[i])

\* The model returned a vehicle and a non-vehicle; one was kept and tracked.
C5_Witness ==
    /\ Returned
    /\ Len(result.detections) = 2
    /\ Len(result.filtered) = 1
    /\ Len(result.vehicle_detections) = 1

\* C6: filter_vehicles is idempotent on every detection set, the empty one
\* included.
C6_FilterIdempotent ==
    filter_vehicles(filter_vehicles(result.detections))
        = filter_vehicles(result.detections)

\* A detection set that the filter changes without emptying it.
C6_Witness ==
    /\ Returned
    /\ filter_vehicles(result.detections) # result.detections
    /\ filter_vehicles(result.detections) # <<>>

\* C7: every box the model returns inside the downsized frame lies, after
\* rescaling, within [0, width] x [0, height] of the original frame, also
\* when int() truncated target_width.
InFrame(xyxy, frame) ==
    /\ RLeq(Zero, xyxy[1]) /\ RLeq(xyxy[1], RInt(frame.width))
    /\ RLeq(Zero, xyxy[3]) /\ RLeq(xyxy[3], RInt(frame.width))
    /\ RLeq(Zero, xyxy[2]) /\ RLeq(xyxy[2], RInt(frame.height))
    /\ RLeq(Zero, xyxy[4]) /\ RLeq(xyxy[4], RInt(frame.height))

C8_EmptyIsOverlayOnly ==
    (Returned /\ result.filtered = <<>>) =>
       /\ result.annotated_frame.scene = result.frame
       /\ result.annotated_frame.boxes = <<>>
       /\ result.annotated_frame.labels = <<>>
       /\ Len(result.overlay) = 2
       /\ result.overlay[1].org = <<10, 30>>
       /\ result.overlay[2].org = <<10, 70>>

\* The model returned detections and the class filter removed them all.
C8_Witness ==
    /\ Returned
    /\ result.results # <<>>
    /\ result.filtered = <<>>

\* Threads inside VehicleDetector.process_frame (between its entry and its
\* return).
InInference == {c \in Contexts : pc[c] = "pf_infer"}

\* C9: at most one process_frame call is in progress at any time in the GUI
\* front ends, under every interleaving of the playback thread with the UI
\* handlers that call update_frame.
C9_SingleInference == Cardinality(InInference) <= 1

\* C10: once Pause or Stop has cleared is_playing, a running playback thread
\* advances at most one more frame (and then terminates).
C10_CooperativeCancel == \A t \in Threads : cleared[t] <= 1

\* C11: in both GUI front ends an exception raised by process_frame is
\* caught inside update_frame and logged, the frame is still displayed,
\* without annotations, and the thread that made the call goes on: the
\* exception ends neither the playback thread nor the application, and
\* leaves the playback flag as it is.
C11_DetectionErrorCaught ==
    /\ [](\A c \in Contexts :
             (pc[c] = "uf_finish" /\ ~loc[c].annotated) =>
                log[c] = [msg |-> "Detection error", frame |-> loc[c].index])
    /\ [](exit_status = -1)
    /\ [][\A c \in Contexts :
             /\ (pc[c] = "pf_infer" /\ pc'[c] # "pf_infer") =>
                   /\ pc'[c] = "uf_finish"
                   /\ is_playing' = is_playing
             /\ (pc[c] = "uf_finish" /\ pc'[c] # "uf_finish") =>
                   /\ displayed' = loc[c]
                   /\ pc'[c] = AfterUpdateFrame(c)]_vars

\* A playback thread whose call failed on frame 1 has gone on to frame 2,
\* which is now displayed with its annotations; frame 1 was displayed
\* without.
C11_Witness ==
    \E t \in Threads :
       /\ log[t] = [msg |-> "Detection error", frame |-> 1]
       /\ displayed.index = 2
       /\ displayed.annotated
       /\ pc[t] = "pl_sleep"

\* C12: in the CLI loop and in the demo loop a failure raised by
\* process_frame for one frame does not end the run: the loop goes on to
\* read the next frame.
C12_LoopSurvivesFailure ==
    (frame_count > 0 /\ result.raised) =>
        pc[Main] \notin {"cli_finally_exc", "crashed"}

\* C13: a model load failure ends the process in every front end (CLI,
\* demo, both GUIs at start and on model change, the single-image script),
\* and no front end runs with a missing detector.
C13_LoadFailureFatal ==
    /\ (log[Main].msg = "Failed to load") =>
          /\ exit_status = 1
          /\ \A c \in Contexts : pc[c] = "exited"
    /\ (exit_status = -1 /\ pc[Main] # "construct") => detector
    /\ log[Main].msg # "Error initializing detector"

\* A GUI that had shown a frame exited on a model change whose load failed.
C13_Witness ==
    /\ frontend \in {"gui", "gui_detector"}
    /\ displayed.index = 0
    /\ log[Main].msg = "Failed to load"
    /\ exit_status = 1

C15_AlwaysEmitsJson ==
    (frontend = "python_detector" /\ exit_status # -1) =>
        \/ "error" \in DOMAIN output
        \/ /\ "detections" \in DOMAIN output
           /\ \A i \in 1..Len(output.detections) :
                 DOMAIN output.detections[i] =
                    {"bbox", "track_id", "confidence", "class_id", "class_name"}

\* C16: in every state of a constructed detector, also before any frame has
\* been processed, get_performance_stats returns the average, the minimum
\* and the maximum over the window and the total-frame counter, so the
\* end-of-run summary of the CLI can read all four.
C16_StatsComplete ==
    detector =>
       LET st == get_performance_stats(Self)
       IN  /\ {"avg_fps", "min_fps", "max_fps", "total_frames"} \subseteq DOMAIN st
           /\ st.total_frames = frame_count

\* C17: no detection returned by process_frame has a confidence below the
\* detector's current conf_threshold, whether the threshold was set at
\* construction or changed through the GUI slider.
C17_ThresholdHonoured ==
    Returned =>
       \A i \in 1..Len(result.vehicle_detections) :
          result.vehicle_detections[i].confidence >= conf_threshold

Sidecar == PathJoin(conv.args.output_dir, RelPath(<<"model_config.json">>))

\* C19: the conversion script writes the sidecar only after the conversion
\* succeeded: a successful run (exit status 0) leaves the converted model
\* at the requested output path and model_config.json in the output
\* directory; a failure in loading, exporting or optimising ends the run
\* with a non-zero status and no sidecar.
C19_SidecarAfterSuccess ==
    conv.started =>
       /\ Sidecar \in conv.files =>
             /\ conv.load = "ok" /\ conv.export = "ok" /\ conv.optimise = "ok"
             /\ conv.output_path \in conv.files
       /\ exit_status = 0 =>
             /\ conv.output_path \in conv.files
             /\ Sidecar \in conv.files
       /\ (pc[Main] \in {"done", "exited"}
              /\ "fails" \in {conv.load, conv.export, conv.optimise}) =>
             /\ exit_status = 1
             /\ Sidecar \notin conv.files

\* A run whose optimisation failed after the converted model was saved: the
\* model file is there, the sidecar is not, the status is 1.
C19_Witness ==
    /\ conv.started
    /\ pc[Main] = "exited"
    /\ conv.optimise = "fails"
    /\ conv.output_path \in conv.files
    /\ exit_status = 1

\* A box of the inference resolution in the coordinates of the original
\* frame (scale_x = width / target_width, scale_y = height / target_height).
InOriginalCoordinates(xyxy, frame) ==
    <<RMul(xyxy[1], Rat(frame.width, TargetWidth(frame))),
      RMul(xyxy[2], Rat(frame.height, target_height)),
      RMul(xyxy[3], Rat(frame.width, TargetWidth(frame))),
      RMul(xyxy[4], Rat(frame.height, target_height))>>

\* The detections of a list without their track ids.
WithoutIds(detections) ==
    [i \in 1..Len(detections) |-> [detections[i] EXCEPT !.tracker_id = 0]]

\* C20: process_frame runs model, rescale, class filter, tracker, annotator
\* in this order: the rescaled set is the model's result in original-frame
\* coordinates, the tracker receives exactly the allowed-class part of the
\* rescaled set, the annotator draws exactly what the tracker returned, and
\* every box that reaches the tracker, the drawing or the caller is a
\* rescaled model box of an allowed class.
C20_StageOrder ==
    Returned =>
       /\ Len(result.detections) = Len(result.results)
       /\ \A i \in 1..Len(result.results) :
             /\ result.detections[i].xyxy
                   = InOriginalCoordinates(result.results[i].xyxy, result.frame)
             /\ result.detections[i].class_id = result.results[i].class_id
       /\ \E mask \in [1..Len(result.detections) -> BOOLEAN] :
             /\ \A i \in 1..Len(result.detections) :
                   mask[i] <=> result.detections[i].class_id
                                  \in DOMAIN vehicle_classes
             /\ result.filtered = Masked(result.detections, mask)
       /\ \E keep \in [1..Len(result.filtered) -> BOOLEAN] :
             WithoutIds(result.vehicle_detections)
                = Masked(result.filtered, keep)
       /\ result.annotated_frame.boxes
             = [i \in 1..Len(result.vehicle_detections) |->
                   result.vehicle_detections[i].xyxy]
       /\ Len(result.annotated_frame.labels) = Len(result.vehicle_detections)
       /\ \A i \in 1..Len(result.vehicle_detections) :
             /\ result.annotated_frame.labels[i].org
                   = <<RTrunc(result.vehicle_detections[i].xyxy[1]),
                       RTrunc(result.vehicle_detections[i].xyxy[2]) - 10>>
             /\ result.vehicle_detections[i].class_id
                   \in DOMAIN vehicle_classes
             /\ \E j \in 1..Len(result.results) :
                   /\ result.vehicle_detections[i].xyxy
                         = InOriginalCoordinates(result.results[j].xyxy,
                                                 result.frame)
                   /\ result.vehicle_detections[i].class_id
                         = result.results[j].class_id

\* A frame larger than the inference resolution on which the model reports
\* an allowed and a disallowed class: the allowed one is tracked and drawn
\* at a box that differs from the model's.
C20_Witness ==
    /\ Returned
    /\ result.frame.height # target_height
    /\ Len(result.filtered) < Len(result.detections)
    /\ Len(result.vehicle_detections) >= 1
    /\ \A j \in 1..Len(result.results) :
          result.annotated_frame.boxes[1] # result.results[j].xyxy

\* C21: an empty detection set, as returned by the model or after the class
\* filter, skips the tracking stage: the call that ends with an empty
\* filtered set (or that raised) leaves the tracker as it was; a non-empty
\* filtered set produces exactly one tracker update; nothing else touches
\* the tracker.
C21_EmptySkipsTracker ==
    [][/\ (pc[Main] = "pf_infer" /\ pc'[Main] # "pf_infer") =>
             IF result'.filtered = <<>>
             THEN tracker' = tracker
             ELSE tracker'.updates = tracker.updates + 1
       /\ tracker' # tracker => pc[Main] = "pf_infer"]_vars

\* A second frame on which the model reports only disallowed classes, after
\* a first frame that updated the tracker: the tracker still shows the one
\* update.
C21_Witness ==
    /\ Returned
    /\ frame_count = 2
    /\ result.results # <<>>
    /\ result.filtered = <<>>
    /\ tracker.updates = 1

\* C22: process_frame never modifies the frame it is given: boxes, labels
\* and overlay text are drawn on a copy at the original resolution, so
\* after the call nothing is drawn on the caller's array, and the returned
\* frame has the pixels and the dimensions of the input frame, not of the
\* downsized one, and carries the drawing.
C22_InputFrameUntouched ==
    Returned =>
       /\ result.drawn_on_input.boxes = <<>>
       /\ result.drawn_on_input.labels = <<>>
       /\ result.drawn_on_input.overlay = <<>>
       /\ result.annotated_frame.buffer # InputBuffer
       /\ result.annotated_frame.scene.width = result.frame.width
       /\ result.annotated_frame.scene.height = result.frame.height
       /\ result.annotated_frame.scene.index = result.frame.index
       /\ DrawnOn(result.annotated_frame.buffer, result.annotated_frame,
                  result.overlay).overlay = result.overlay
       /\ Len(result.overlay) = 2

\* A 1920x1080 frame, downsized to 853x480 for the model, returned at
\* 1920x1080 with a box and both overlay lines drawn.
C22_Witness ==
    /\ Returned
    /\ result.frame.width = 1920
    /\ TargetWidth(result.frame) = 853
    /\ result.annotated_frame.scene.width = 1920
    /\ result.annotated_frame.scene.height = 1080
    /\ Len(result.annotated_frame.boxes) >= 1
    /\ result.drawn_on_input.boxes = <<>>

\* C23: the total-frame counter that get_performance_stats reports equals
\* the number of process_frame calls made on the detector so far, in every
\* state between calls, also when the window is empty or a call failed
\* part-way.
C23_TotalCountsCalls ==
    (\A c \in Contexts : pc[c] # "pf_infer") =>
       get_performance_stats(Self).total_frames = frame_count

\* C24: the sample appended to the rolling window for a processed frame is
\* that frame's inference latency (the smoothed throughput being derived
\* from the average latency over the window).
C24_WindowHoldsLatency ==
    (Returned /\ fps_history # <<>>) =>
       fps_history[Len(fps_history)] = result.inference_time

\* C25: at most one playback thread is alive at any time in a GUI front
\* end, for every sequence of Play/Pause, Stop and Open Video events.
C25_OnePlaybackThread ==
    Cardinality(AliveThreads) <= 1

\* C26: whenever a video is loaded, 0 <= current_frame <= total_frames - 1.
C26_FrameIndexInRange ==
    CapOpen => (0 <= current_frame /\ current_frame <= total_frames - 1)

\* C30: the playback flag is truthful: is_playing implies that a playback
\* thread is running, so whenever the thread has ended, for any reason,
\* is_playing is false.
C30_FlagTruthful ==
    is_playing => AliveThreads # {}

\* C27: after the Stop handler has returned, and until the next user event,
\* playback of the loaded video is stopped and rewound: is_playing is false
\* and current_frame is 0, wherever the playback thread was in its loop.
C27_StopRewinds ==
    (stopped /\ pc[Main] = "idle" /\ CapOpen) =>
       (~is_playing /\ current_frame = 0)

\* C29: the frame update_frame decodes (and then processes and shows) is
\* the frame at index current_frame, under every interleaving of the
\* playback threads and the UI thread on the same capture.
C29_ReadsCurrentFrame ==
    [][\A c \in Contexts :
          (pc[c] = "uf_read" /\ pc'[c] \in {"pf_enter", "uf_finish"}) =>
             loc'[c].index = current_frame]_vars

====
